---- MODULE Spec2Model ----
(***************************************************************************)
(* Model of the lazy-bird issue watcher (scripts/issue-watcher.py): the    *)
(* multi-project poll loop IssueWatcher.run with its dedup store           *)
(* (processed_issues.json), its queue artifacts (task-<id>.json) and the   *)
(* label transition, together with process kill and restart.               *)
(***************************************************************************)
EXTENDS Naturals, Sequences, FiniteSets, TLC

(* ------------------------------ bounds -------------------------------- *)
\* number of configured, enabled project watchers
NumProjects == 2
\* issue numbers a tracker can hold are 1..MaxIssue
MaxIssue == 2
\* longest list one fetch returns
MaxBatch == 2
\* kills of the process that are followed
MaxCrashes == 1

Projects == 1..NumProjects
IssueIds == 1..MaxIssue

(* ------------------------------ helpers ------------------------------- *)
Range(s) == {s[n] : n \in 1..Len(s)}

\* str(n) for a non-negative integer, as a sequence of characters
RECURSIVE Str(_)
Str(n) ==
  LET d == <<"0", "1", "2", "3", "4", "5", "6", "7", "8", "9">>
  IN IF n < 10 THEN <<d[n + 1]>> ELSE Str(n \div 10) \o <<d[(n % 10) + 1]>>

\* project_config['id'] of the p-th watcher, as a sequence of characters
project_id(p) == <<"p">> \o Str(p)

\* created_at of an issue: trackers number issues in creation order
created_at(i) == i

\* f"{project_watcher.project_id}:{issue['id']}"
issue_key(p, i) == project_id(p) \o <<":">> \o Str(i)

Keys == {issue_key(p, i) : p \in Projects, i \in IssueIds}

\* task_id of queue_task: f"{parsed_issue['project_id']}-{parsed_issue['issue_id']}"
task_id(p, i) == project_id(p) \o <<"-">> \o Str(i)

\* the lists a tracker may answer with: any order, repetitions included
FetchResults == UNION {[1..n -> IssueIds] : n \in 0..MaxBatch}

(* --------------------------- configuration ---------------------------- *)
\* longest `projects` list of a configuration
MaxEntries == 2

\* the ids projects are given
Ids == {project_id(p) : p \in Projects}

\* required of load_projects
required ==
  <<"id", "name", "type", "path", "repository", "git_platform", "test_command">>

github == <<"g", "i", "t", "h", "u", "b">>
gitlab == <<"g", "i", "t", "l", "a", "b">>
default == <<"d", "e", "f", "a", "u", "l", "t">>

\* a project dict with the keys fs: its id, its enabled flag, its platform
Entry(fs, id, en) ==
  [f \in fs |-> CASE f = "id" -> id
                  [] f = "enabled" -> en
                  [] f = "git_platform" -> github
                  [] OTHER -> "x"]

\* key sets of hand-written entries: complete, or one required key left out
FieldSets == {Range(required)} \cup {Range(required) \ {f} : f \in Range(required)}

\* hand-written entries: without `enabled`, or with enabled: true / false
Entries ==
  {Entry(fs, id, TRUE) : fs \in FieldSets, id \in Ids}
    \cup {Entry(fs \cup {"enabled"}, id, en) :
            fs \in FieldSets, id \in Ids, en \in BOOLEAN}

\* project.get('enabled', True)
get_enabled(project) ==
  IF "enabled" \in DOMAIN project THEN project["enabled"] ELSE TRUE

\* missing = [f for f in required if f not in project]
missing(project) == SelectSeq(required, LAMBDA f : f \notin DOMAIN project)

(* ------------------------------ secrets ------------------------------- *)
token_suffix == <<"_", "t", "o", "k", "e", "n">>
api_token == <<"a", "p", "i">> \o token_suffix

\* load_token of a watcher with this project_id and platform, sec giving for
\* every file name of the secrets directory "absent", "empty" or "ok"; the
\* token a file holds is written as the name of the file
load_token(pid, platform, sec) ==
  LET f1 == pid \o token_suffix
      f2 == platform \o token_suffix
      token_file == IF sec[f1] # "absent" THEN f1
                    ELSE IF sec[f2] # "absent" THEN f2
                    ELSE api_token
  IN IF sec[token_file] = "absent"
       THEN [raised |-> "FileNotFoundError", token |-> <<>>]
     ELSE IF sec[token_file] = "empty"
       THEN [raised |-> "ValueError", token |-> <<>>]
     ELSE [raised |-> "none", token |-> token_file]

\* the files a secrets directory may hold
SecretFiles ==
  {id \o token_suffix : id \in Ids \cup {default}}
    \cup {github \o token_suffix, gitlab \o token_suffix, api_token}

VARIABLES
  pc,                \* position of the process in run()
  cur,               \* index of project_watcher in self.project_watchers
  issues,            \* the list fetch_ready_issues returned for the current project
  new_issues,        \* new_issues of the current project
  idx,               \* position of `issue` in new_issues
  processed_issues,  \* self.processed_issues (memory)
  store,             \* processed_issues.json on disk
  task_file,         \* the task file of the observed issue on disk
  \* ---- observation only: never read by the actions' guards ----
  obs,               \* the observed issue <<project, number>>, fixed in a behaviour
  ev,                \* steps completed for the current issue, in order
  queued,            \* issue numbers published for the current project this round
  saves,             \* save_processed_issues calls that returned, same scope
  visited,           \* projects fetched in this round, in order
  failed,            \* projects whose fetch or processing failed in this round
  old,               \* the observed key was in processed_issues when the round began
  everStored,        \* the observed key was once in a completely written store
  durable,           \* everStored as it was at the last kill
  prevQueue,         \* the observed task file was complete at the last kill
  crashes,           \* kills so far
  \* ---- startup: read once by __init__, never written by run() ----
  config,            \* the configuration file: [status, data]
  secrets,           \* the token files of the secrets directory: name -> status
  project_watchers,  \* self.project_watchers
  \* ---- a single call of a function: its arguments and what it gave ----
  arg,
  ret

vars == <<pc, cur, issues, new_issues, idx, processed_issues, store, task_file,
          obs, ev, queued, saves, visited, failed, old, everStored, durable,
          prevQueue, crashes, config, secrets, project_watchers, arg, ret>>

hist == <<obs, everStored, durable, prevQueue, crashes>>

setup == <<config, secrets, project_watchers, arg, ret>>

\* the issue being processed, its dedup key and its task file
CurIssue == new_issues[idx]
CurKey == issue_key(cur, CurIssue)
CurTask == task_id(cur, CurIssue)

ObsKey == issue_key(obs[1], obs[2])
ObsTask == task_id(obs[1], obs[2])

(* --------------------------- dedup store ------------------------------ *)
\* load_processed_issues once the data directory is there: set(json.loads(..)).
\* A file is [status, keys]: "ok" holds the JSON list of keys, "object" a JSON
\* object with these member names, "string" a JSON string (the one in keys);
\* "missing" gives set(), and so does every file whose read, json.loads or
\* set() raises: "unreadable", "partial" (cut off), "scalar" (number, null)
load_processed_issues(file) ==
  IF file.status \in {"ok", "object"} THEN file.keys
  ELSE IF file.status = "string"
    THEN {<<c>> : c \in UNION {Range(k) : k \in file.keys}}
  ELSE {}

\* data_dir.mkdir(parents=True, exist_ok=True) of load_processed_issues, which
\* is outside its try: "nodir" is a data directory that cannot be made
data_dir_mkdir(file) ==
  IF file.status = "nodir" THEN "OSError" ELSE "none"

\* a filter that lets every fetched issue through
FilterNewNone(p, list, seen) == list

\* a filter that hands the new issues on in reverse order
RECURSIVE FilterNewReversed(_, _, _)
FilterNewReversed(p, list, seen) ==
  IF list = <<>> THEN <<>>
  ELSE LET rest == FilterNewReversed(p, Tail(list), seen)
       IN IF issue_key(p, Head(list)) \notin seen
            THEN rest \o <<Head(list)>>
            ELSE rest

\* the filter of run(): issues whose key is not in processed_issues, in order
RECURSIVE FilterNew(_, _, _)
FilterNew(p, list, seen) ==
  IF list = <<>> THEN <<>>
  ELSE LET rest == FilterNew(p, Tail(list), seen)
       IN IF issue_key(p, Head(list)) \notin seen
            THEN <<Head(list)>> \o rest
            ELSE rest

(* --------------------------- load_projects ---------------------------- *)
\* ProjectWatcher(project, self.config) for entry n of the list (0: the
\* legacy project): the watcher, or the exception of load_token
ProjectWatcher(n, project, sec) ==
  LET t == load_token(project["id"], project["git_platform"], sec)
  IN [raised |-> t.raised,
      watcher |-> [entry |-> n, project_id |-> project["id"], token |-> t.token]]

\* the loop of load_projects without the test of the enabled flag
RECURSIVE load_entries_all(_, _, _)
load_entries_all(projects, n, sec) ==
  IF n > Len(projects) THEN [raised |-> "none", watchers |-> <<>>]
  ELSE LET project == projects[n]
           rest == load_entries_all(projects, n + 1, sec)
       IN IF missing(project) # <<>> THEN rest
          ELSE LET w == ProjectWatcher(n, project, sec)
               IN IF w.raised # "none" THEN rest
                  ELSE [raised |-> rest.raised,
                        watchers |-> <<w.watcher>> \o rest.watchers]

\* the loop of load_projects ending the process when a watcher cannot be built
RECURSIVE load_entries_fatal(_, _, _)
load_entries_fatal(projects, n, sec) ==
  IF n > Len(projects) THEN [raised |-> "none", watchers |-> <<>>]
  ELSE LET project == projects[n]
           rest == load_entries_fatal(projects, n + 1, sec)
       IN IF ~get_enabled(project)
            THEN IF "id" \notin DOMAIN project
                   THEN [raised |-> "KeyError", watchers |-> <<>>]
                   ELSE rest
          ELSE IF missing(project) # <<>> THEN rest
          ELSE LET w == ProjectWatcher(n, project, sec)
               IN IF w.raised # "none" THEN [raised |-> "exit1", watchers |-> <<>>]
                  ELSE [raised |-> rest.raised,
                        watchers |-> <<w.watcher>> \o rest.watchers]

\* the for loop of load_projects from entry n on: the watchers appended, or
\* the exception that leaves the loop
RECURSIVE load_entries(_, _, _)
load_entries(projects, n, sec) ==
  IF n > Len(projects) THEN [raised |-> "none", watchers |-> <<>>]
  ELSE LET project == projects[n]
           rest == load_entries(projects, n + 1, sec)
       IN IF ~get_enabled(project)
            THEN IF "id" \notin DOMAIN project
                   THEN [raised |-> "KeyError", watchers |-> <<>>]
                   ELSE rest
          ELSE IF missing(project) # <<>> THEN rest
          ELSE LET w == ProjectWatcher(n, project, sec)
               IN IF w.raised # "none" THEN rest
                  ELSE [raised |-> rest.raised,
                        watchers |-> <<w.watcher>> \o rest.watchers]

\* legacy_project of load_projects
legacy_project == Entry(Range(required) \cup {"enabled"}, default, TRUE)

\* load_projects on the parsed configuration cfg (a dict): the watchers, or
\* how the process ends ("exit1": sys.exit(1); else the uncaught exception)
load_projects(cfg, sec) ==
  IF "projects" \in DOMAIN cfg /\ cfg["projects"] # <<>>
    THEN LET r == load_entries(cfg["projects"], 1, sec)
         IN IF r.raised # "none" THEN [outcome |-> r.raised, watchers |-> <<>>]
            ELSE IF r.watchers = <<>> THEN [outcome |-> "exit1", watchers |-> <<>>]
            ELSE [outcome |-> "ok", watchers |-> r.watchers]
  ELSE IF "project" \in DOMAIN cfg \/ "repository" \in DOMAIN cfg
    THEN LET w == ProjectWatcher(0, legacy_project, sec)
         IN IF w.raised # "none" THEN [outcome |-> "exit1", watchers |-> <<>>]
            ELSE [outcome |-> "ok", watchers |-> <<w.watcher>>]
  ELSE [outcome |-> "exit1", watchers |-> <<>>]

\* the configuration and secrets of the run modelled below: NumProjects
\* complete, enabled projects, each with its own token
RunConfig ==
  [status |-> "ok",
   data |-> [projects |-> [p \in Projects |-> Entry(Range(required), project_id(p), TRUE)]]]

RunSecrets ==
  [f \in SecretFiles |->
     IF f \in {id \o token_suffix : id \in Ids} THEN "ok" ELSE "absent"]

(* ------------------------------ Init ---------------------------------- *)
Init ==
  /\ pc = "fetch"
  /\ cur = 1
  /\ issues = <<>>
  /\ new_issues = <<>>
  /\ idx = 0
  /\ store = [status |-> "missing", keys |-> {}]
  /\ processed_issues = load_processed_issues([status |-> "missing", keys |-> {}])
  /\ task_file = "none"
  /\ obs \in Projects \X IssueIds
  /\ ev = <<>>
  /\ queued = <<>>
  /\ saves = 0
  /\ visited = <<>>
  /\ failed = {}
  /\ old = FALSE
  /\ everStored = FALSE
  /\ durable = FALSE
  /\ prevQueue = FALSE
  /\ crashes = 0
  /\ config = RunConfig
  /\ secrets = RunSecrets
  /\ project_watchers = load_projects(RunConfig.data, RunSecrets).watchers
  /\ arg = <<>>
  /\ ret = <<>>

(* ------------------------------ run() --------------------------------- *)
\* what run() does with the list fetch_ready_issues returned
Filtered(list) ==
  /\ issues' = list
  /\ new_issues' = FilterNew(cur, list, processed_issues)
  /\ idx' = IF new_issues' = <<>> THEN 0 ELSE 1
  /\ pc' = IF new_issues' = <<>> THEN "next_project" ELSE "parse"
  /\ visited' = Append(visited, cur)
  /\ queued' = <<>>
  /\ saves' = 0
  /\ ev' = <<>>

\* how a request of fetch_ready_issues can end without a list of issues
FetchFailures ==
  {"RequestException", "HTTPError", "Timeout", "Exception",
   "gitlab_lookup_failed", "unsupported_platform"}

\* a fetch that hands back what it had received when the request failed
fetch_ready_issues_partial(outcome, list) == list

\* fetch_ready_issues: the issues of the answer, [] after any failure
fetch_ready_issues(outcome, list) ==
  IF outcome = "ok" THEN list ELSE <<>>

\* fetch_ready_issues answers with a list; run() filters it
FetchReadyIssues ==
  /\ pc = "fetch"
  /\ \E list \in FetchResults : Filtered(fetch_ready_issues("ok", list))
  /\ UNCHANGED <<cur, processed_issues, store, task_file, failed, old, hist, setup>>

\* fetch_ready_issues catches a transport error and answers []
FetchFails ==
  /\ pc = "fetch"
  /\ \E outcome \in FetchFailures, list \in FetchResults :
       Filtered(fetch_ready_issues(outcome, list))
  /\ failed' = failed \cup {cur}
  /\ UNCHANGED <<cur, processed_issues, store, task_file, old, hist, setup>>

\* parse_issue: pure and total
ParseIssue ==
  /\ pc = "parse"
  /\ ev' = <<"parse">>
  /\ pc' = "queue"
  /\ UNCHANGED <<cur, issues, new_issues, idx, processed_issues, store, task_file,
                 queued, saves, visited, failed, old, hist, setup>>

\* the observed task file after the current task file got status s
Written(s) == IF CurTask = ObsTask THEN s ELSE task_file

\* queue_task up to the opening of the task file: write_text opens with "w",
\* which truncates; a failing mkdir or open raises
QueueTaskOpen ==
  /\ pc = "queue"
  /\ \/ /\ task_file' = Written("partial")
        /\ pc' = "write"
     \/ /\ pc' = "except"
        /\ UNCHANGED task_file
  /\ UNCHANGED <<cur, issues, new_issues, idx, processed_issues, store,
                 ev, queued, saves, visited, failed, old, hist, setup>>

\* queue_task with the write error swallowed instead of raised
QueueTaskWriteSwallows ==
  /\ pc = "write"
  /\ \/ /\ task_file' = Written("ok")
        /\ ev' = Append(ev, "publish")
        /\ queued' = Append(queued, CurIssue)
     \/ UNCHANGED <<task_file, ev, queued>>
  /\ pc' = "label"
  /\ UNCHANGED <<cur, issues, new_issues, idx, processed_issues, store,
                 saves, visited, failed, old, hist, setup>>

\* run() recording the issue right after queue_task, without the label call
QueueTaskWriteSkipsLabel ==
  /\ pc = "write"
  /\ \/ /\ task_file' = Written("ok")
        /\ ev' = Append(ev, "publish")
        /\ queued' = Append(queued, CurIssue)
        /\ pc' = "add"
     \/ /\ pc' = "except"
        /\ UNCHANGED <<task_file, ev, queued>>
  /\ UNCHANGED <<cur, issues, new_issues, idx, processed_issues, store,
                 saves, visited, failed, old, hist, setup>>

\* queue_task: the write of the task file completes, or raises
QueueTaskWrite ==
  /\ pc = "write"
  /\ \/ /\ task_file' = Written("ok")
        /\ ev' = Append(ev, "publish")
        /\ queued' = Append(queued, CurIssue)
        /\ pc' = "label"
     \/ /\ pc' = "except"
        /\ UNCHANGED <<task_file, ev, queued>>
  /\ UNCHANGED <<cur, issues, new_issues, idx, processed_issues, store,
                 saves, visited, failed, old, hist, setup>>

\* update_issue_labels: every exception is caught inside
UpdateIssueLabels ==
  /\ pc = "label"
  /\ \E outcome \in {"label_ok", "label_failed"} : ev' = Append(ev, outcome)
  /\ pc' = "add"
  /\ UNCHANGED <<cur, issues, new_issues, idx, processed_issues, store, task_file,
                 queued, saves, visited, failed, old, hist, setup>>

\* run() adding the key and leaving the save to the end of the round
MarkProcessedNoSave ==
  /\ pc = "add"
  /\ processed_issues' = processed_issues \cup {CurKey}
  /\ ev' = Append(ev, "add")
  /\ pc' = "next_issue"
  /\ UNCHANGED <<cur, issues, new_issues, idx, store, task_file,
                 queued, saves, visited, failed, old, hist, setup>>

\* self.processed_issues.add(issue_key)
MarkProcessed ==
  /\ pc = "add"
  /\ processed_issues' = processed_issues \cup {CurKey}
  /\ ev' = Append(ev, "add")
  /\ pc' = "save"
  /\ UNCHANGED <<cur, issues, new_issues, idx, store, task_file,
                 queued, saves, visited, failed, old, hist, setup>>

\* save_processed_issues up to the opening of the store file: mkdir is outside
\* the try and raises to run(); a failing open is logged and swallowed
SaveOpen ==
  /\ pc = "save"
  /\ \/ /\ store' = [status |-> "partial", keys |-> {}]
        /\ pc' = "savew"
        /\ UNCHANGED <<ev, saves>>
     \/ /\ pc' = "next_issue"
        /\ ev' = Append(ev, "persist")
        /\ saves' = saves + 1
        /\ UNCHANGED store
     \/ /\ pc' = "except"
        /\ UNCHANGED <<store, ev, saves>>
  /\ UNCHANGED <<cur, issues, new_issues, idx, processed_issues, task_file,
                 queued, visited, failed, old, hist, setup>>

\* save_processed_issues: the write completes, or fails and is swallowed
SaveWrite ==
  /\ pc = "savew"
  /\ \/ /\ store' = [status |-> "ok", keys |-> processed_issues]
        /\ everStored' = (everStored \/ ObsKey \in processed_issues)
     \/ UNCHANGED <<store, everStored>>
  /\ ev' = Append(ev, "persist")
  /\ saves' = saves + 1
  /\ pc' = "next_issue"
  /\ UNCHANGED <<cur, issues, new_issues, idx, processed_issues, task_file,
                 queued, visited, failed, old, obs, durable, prevQueue, crashes,
                 setup>>

\* the for loop over new_issues advances
NextIssue ==
  /\ pc = "next_issue"
  /\ IF idx < Len(new_issues)
       THEN /\ idx' = idx + 1
            /\ pc' = "parse"
       ELSE /\ idx' = idx
            /\ pc' = "next_project"
  /\ UNCHANGED <<cur, issues, new_issues, processed_issues, store, task_file,
                 ev, queued, saves, visited, failed, old, hist, setup>>

\* an exception handler that gives up the round
ProjectErrorEndsRound ==
  /\ pc = "except"
  /\ failed' = failed \cup {cur}
  /\ pc' = "sleep"
  /\ UNCHANGED <<cur, issues, new_issues, idx, processed_issues, store, task_file,
                 ev, queued, saves, visited, old, hist, setup>>

\* an exception handler that marks the failed issue as processed
ProjectErrorMarks ==
  /\ pc = "except"
  /\ failed' = failed \cup {cur}
  /\ processed_issues' = processed_issues \cup {CurKey}
  /\ pc' = "next_project"
  /\ UNCHANGED <<cur, issues, new_issues, idx, store, task_file,
                 ev, queued, saves, visited, old, hist, setup>>

\* an exception handler at the issue: the loop goes on with the next issue
ProjectErrorNextIssue ==
  /\ pc = "except"
  /\ failed' = failed \cup {cur}
  /\ pc' = "next_issue"
  /\ UNCHANGED <<cur, issues, new_issues, idx, processed_issues, store, task_file,
                 ev, queued, saves, visited, old, hist, setup>>

\* except Exception at the project boundary: log, go on with the next project
ProjectError ==
  /\ pc = "except"
  /\ failed' = failed \cup {cur}
  /\ pc' = "next_project"
  /\ UNCHANGED <<cur, issues, new_issues, idx, processed_issues, store, task_file,
                 ev, queued, saves, visited, old, hist, setup>>

\* the for loop over self.project_watchers advances, or the round ends
NextProject ==
  /\ pc = "next_project"
  /\ IF cur < NumProjects
       THEN /\ cur' = cur + 1
            /\ pc' = "fetch"
       ELSE /\ cur' = cur
            /\ pc' = "sleep"
  /\ UNCHANGED <<issues, new_issues, idx, processed_issues, store, task_file,
                 ev, queued, saves, visited, failed, old, hist, setup>>

\* time.sleep(self.poll_interval) returns and the next round begins
Sleep ==
  /\ pc = "sleep"
  /\ pc' = "fetch"
  /\ cur' = 1
  /\ issues' = <<>>
  /\ new_issues' = <<>>
  /\ idx' = 0
  /\ ev' = <<>>
  /\ queued' = <<>>
  /\ saves' = 0
  /\ visited' = <<>>
  /\ failed' = {}
  /\ old' = (ObsKey \in processed_issues)
  /\ UNCHANGED <<processed_issues, store, task_file, hist, setup>>

(* ------------------------- kill and restart --------------------------- *)
\* the process is killed: memory is lost, the files stay as they are
Crash ==
  /\ pc # "dead"
  /\ crashes < MaxCrashes
  /\ crashes' = crashes + 1
  /\ pc' = "dead"
  /\ cur' = 1
  /\ issues' = <<>>
  /\ new_issues' = <<>>
  /\ idx' = 0
  /\ processed_issues' = {}
  /\ ev' = <<>>
  /\ queued' = <<>>
  /\ saves' = 0
  /\ visited' = <<>>
  /\ failed' = {}
  /\ old' = FALSE
  /\ durable' = everStored
  /\ prevQueue' = (task_file = "ok")
  /\ UNCHANGED <<store, task_file, obs, everStored, setup>>

\* IssueWatcher.__init__ of the restarted process
Restart ==
  /\ pc = "dead"
  /\ processed_issues' = load_processed_issues(store)
  /\ old' = (ObsKey \in processed_issues')
  /\ pc' = "fetch"
  /\ UNCHANGED <<cur, issues, new_issues, idx, store, task_file,
                 ev, queued, saves, visited, failed, hist, setup>>

Next ==
  \/ FetchReadyIssues
  \/ FetchFails
  \/ ParseIssue
  \/ QueueTaskOpen
  \/ QueueTaskWrite
  \/ UpdateIssueLabels
  \/ MarkProcessed
  \/ SaveOpen
  \/ SaveWrite
  \/ NextIssue
  \/ ProjectError
  \/ NextProject
  \/ Sleep
  \/ Crash
  \/ Restart

Spec == Init /\ [][Next]_vars

(* ------------------- the run without kills, with progress -------------- *)
\* run() is one thread; every call in it returns (network calls time out
\* after 30 s, the sleep ends), so a step that can be taken is taken
NextLive ==
  \/ FetchReadyIssues
  \/ FetchFails
  \/ ParseIssue
  \/ QueueTaskOpen
  \/ QueueTaskWrite
  \/ UpdateIssueLabels
  \/ MarkProcessed
  \/ SaveOpen
  \/ SaveWrite
  \/ NextIssue
  \/ ProjectError
  \/ NextProject
  \/ Sleep

SpecLive == Init /\ [][NextLive]_vars /\ WF_vars(NextLive)

(* --------------------- the run with a shutdown request ----------------- *)
\* KeyboardInterrupt is raised wherever run() happens to be: no handler below
\* the one of the while loop catches it (they catch Exception), the loop is
\* left with break and the process exits with memory and files as they are
Interrupt ==
  /\ pc # "stopped"
  /\ pc' = "stopped"
  /\ UNCHANGED <<cur, issues, new_issues, idx, processed_issues, store, task_file,
                 ev, queued, saves, visited, failed, old, hist, setup>>

NextInterrupt ==
  \/ FetchReadyIssues
  \/ FetchFails
  \/ ParseIssue
  \/ QueueTaskOpen
  \/ QueueTaskWrite
  \/ UpdateIssueLabels
  \/ MarkProcessed
  \/ SaveOpen
  \/ SaveWrite
  \/ NextIssue
  \/ ProjectError
  \/ NextProject
  \/ Sleep
  \/ Interrupt

SpecInterrupt == Init /\ [][NextInterrupt]_vars

(* ------------------------------ startup -------------------------------- *)
\* parsed configurations: a `projects` list, the legacy shape, an empty
\* `projects` list beside legacy keys, and one with neither
ConfigData ==
  {[projects |-> l] : l \in UNION {[1..n -> Entries] : n \in 0..MaxEntries}}
    \cup {[repository |-> "x"],
          [projects |-> <<>>, repository |-> "x"],
          [test_command |-> "x"]}

\* configuration files: absent, not parseable, or holding a dict
ConfigFiles ==
  {[status |-> st, data |-> [test_command |-> "x"]] : st \in {"missing", "invalid"}}
    \cup {[status |-> "ok", data |-> d] : d \in ConfigData}

\* secrets directories at startup: the token of the first project and the
\* global one are absent, empty or there; no other token file exists
StartupSecrets ==
  {sec \in [SecretFiles -> {"absent", "empty", "ok"}] :
     \A f \in SecretFiles \ {project_id(1) \o token_suffix, api_token} :
       sec[f] = "absent"}

\* what processed_issues.json may be when the process starts
StoreFiles ==
  {[status |-> st, keys |-> {}] :
     st \in {"missing", "unreadable", "partial", "scalar", "nodir", "ok"}}
    \cup {[status |-> st, keys |-> {issue_key(1, 1)}] :
            st \in {"ok", "string", "object"}}

\* a process that has not begun to poll: nothing fetched, nothing recorded
Idle ==
  /\ cur = 1
  /\ issues = <<>>
  /\ new_issues = <<>>
  /\ idx = 0
  /\ processed_issues = {}
  /\ task_file = "none"
  /\ obs = <<1, 1>>
  /\ ev = <<>>
  /\ queued = <<>>
  /\ saves = 0
  /\ visited = <<>>
  /\ failed = {}
  /\ old = FALSE
  /\ everStored = FALSE
  /\ durable = FALSE
  /\ prevQueue = FALSE
  /\ crashes = 0

\* the process before main() has read anything
InitStartup ==
  /\ pc = "load_config"
  /\ config \in ConfigFiles
  /\ secrets \in StartupSecrets
  /\ store \in StoreFiles
  /\ project_watchers = <<>>
  /\ Idle
  /\ arg = <<>>
  /\ ret = <<>>

\* main() and load_config: without a file that parses, sys.exit(1)
LoadConfig ==
  /\ pc = "load_config"
  /\ pc' = IF config.status = "ok" THEN "load_projects" ELSE "exit1"
  /\ UNCHANGED <<cur, issues, new_issues, idx, processed_issues, store, task_file,
                 ev, queued, saves, visited, failed, old, hist, setup>>

\* self.project_watchers = self.load_projects()
LoadProjects ==
  /\ pc = "load_projects"
  /\ LET r == load_projects(config.data, secrets)
     IN /\ project_watchers' = r.watchers
        /\ pc' = IF r.outcome = "ok" THEN "load_processed" ELSE r.outcome
  /\ UNCHANGED <<cur, issues, new_issues, idx, processed_issues, store, task_file,
                 ev, queued, saves, visited, failed, old, hist,
                 config, secrets, arg, ret>>

\* self.processed_issues = self.load_processed_issues()
LoadProcessedIssues ==
  /\ pc = "load_processed"
  /\ IF data_dir_mkdir(store) # "none"
       THEN /\ pc' = data_dir_mkdir(store)
            /\ UNCHANGED processed_issues
       ELSE /\ pc' = "poll"
            /\ processed_issues' = load_processed_issues(store)
  /\ UNCHANGED <<cur, issues, new_issues, idx, store, task_file,
                 ev, queued, saves, visited, failed, old, hist, setup>>

\* run(): the watchers of self.project_watchers are fetched one after the
\* other (here every tracker answers with no issue), then the round is over
PollWatcher ==
  /\ pc = "poll"
  /\ visited' = Append(visited, cur)
  /\ IF cur < Len(project_watchers)
       THEN /\ cur' = cur + 1
            /\ pc' = "poll"
       ELSE /\ cur' = cur
            /\ pc' = "polled"
  /\ UNCHANGED <<issues, new_issues, idx, processed_issues, store, task_file,
                 ev, queued, saves, failed, old, hist, setup>>

NextStartup ==
  \/ LoadConfig
  \/ LoadProjects
  \/ LoadProcessedIssues
  \/ PollWatcher

SpecStartup == InitStartup /\ [][NextStartup]_vars

(* --------------------------- project-manager -------------------------- *)
\* get_projects of project-manager.py
get_projects(cfg) ==
  IF "projects" \in DOMAIN cfg /\ cfg["projects"] # <<>> THEN cfg["projects"]
  ELSE <<>>

\* find_project: the position of the first project with this id, 0 for None
find_project(projects, id) ==
  LET hits == {n \in 1..Len(projects) :
                 "id" \in DOMAIN projects[n] /\ projects[n]["id"] = id}
  IN IF hits = {} THEN 0 ELSE CHOOSE n \in hits : \A m \in hits : n <= m

\* project[field] = value
SetField(project, field, value) ==
  [f \in DOMAIN project \cup {field} |-> IF f = field THEN value ELSE project[f]]

\* new_project of cmd_add
new_project(id) ==
  Entry(Range(required)
          \cup {"build_command", "lint_command", "format_command", "enabled"},
        id, TRUE)

\* save_config, and the load_config of the next command or of the watcher:
\* yaml.safe_dump followed by yaml.safe_load gives back the dict of strings,
\* booleans and lists it was given
Saved(projects) ==
  config' = [status |-> "ok",
             data |-> [f \in DOMAIN config.data \cup {"projects"} |->
                         IF f = "projects" THEN projects ELSE config.data[f]]]

\* the configuration project-manager starts from: no project yet
InitManager ==
  /\ pc = "manage"
  /\ config = [status |-> "ok", data |-> [poll_interval_seconds |-> "60"]]
  /\ secrets = RunSecrets
  /\ store = [status |-> "missing", keys |-> {}]
  /\ project_watchers = <<>>
  /\ Idle
  /\ arg = <<>>
  /\ ret = <<>>

Managed ==
  UNCHANGED <<pc, cur, issues, new_issues, idx, processed_issues, store, task_file,
              ev, queued, saves, visited, failed, old, hist,
              secrets, project_watchers, arg, ret>>

\* project-manager add --id ID ...: refused when the id is taken
cmd_add ==
  /\ pc = "manage"
  /\ \E id \in Ids :
       LET projects == IF "projects" \in DOMAIN config.data
                         THEN config.data["projects"] ELSE <<>>
       IN /\ find_project(projects, id) = 0
          /\ Len(projects) < MaxEntries
          /\ Saved(Append(projects, new_project(id)))
  /\ Managed

\* project-manager edit ID --field FIELD --value VALUE
cmd_edit ==
  /\ pc = "manage"
  /\ \E id \in Ids, field \in {"id", "name"} :
       \E value \in (IF field = "id" THEN Ids ELSE {"x", "y"}) :
         LET projects == get_projects(config.data)
             n == find_project(projects, id)
         IN /\ n # 0
            /\ Saved([projects EXCEPT ![n] = SetField(@, field, value)])
  /\ Managed

\* project-manager enable ID
cmd_enable ==
  /\ pc = "manage"
  /\ \E id \in Ids :
       LET projects == get_projects(config.data)
           n == find_project(projects, id)
       IN /\ n # 0
          /\ ~get_enabled(projects[n])
          /\ Saved([projects EXCEPT ![n] = SetField(@, "enabled", TRUE)])
  /\ Managed

\* project-manager disable ID
cmd_disable ==
  /\ pc = "manage"
  /\ \E id \in Ids :
       LET projects == get_projects(config.data)
           n == find_project(projects, id)
       IN /\ n # 0
          /\ get_enabled(projects[n])
          /\ Saved([projects EXCEPT ![n] = SetField(@, "enabled", FALSE)])
  /\ Managed

\* project-manager remove ID --yes
cmd_remove ==
  /\ pc = "manage"
  /\ \E id \in Ids :
       LET projects == get_projects(config.data)
           n == find_project(projects, id)
       IN /\ n # 0
          /\ Saved([m \in 1..(Len(projects) - 1) |->
                      IF m < n THEN projects[m] ELSE projects[m + 1]])
  /\ Managed

\* the watcher is started on the configuration as it is now
StartWatcher ==
  /\ pc = "manage"
  /\ pc' = "load_config"
  /\ UNCHANGED <<cur, issues, new_issues, idx, processed_issues, store, task_file,
                 ev, queued, saves, visited, failed, old, hist, setup>>

NextManager ==
  \/ cmd_add
  \/ cmd_edit
  \/ cmd_enable
  \/ cmd_disable
  \/ cmd_remove
  \/ StartWatcher
  \/ LoadConfig
  \/ LoadProjects
  \/ LoadProcessedIssues
  \/ PollWatcher

SpecManager == InitManager /\ [][NextManager]_vars

(* ------------------------- one call of load_token ---------------------- *)
\* a watcher of any project and platform is built over any secrets directory
InitToken ==
  /\ pc = "load_token"
  /\ arg \in [project_id : Ids \cup {default}, platform : {github, gitlab}]
  /\ secrets \in [SecretFiles -> {"absent", "empty", "ok"}]
  /\ ret = <<>>
  /\ config = RunConfig
  /\ store = [status |-> "missing", keys |-> {}]
  /\ project_watchers = <<>>
  /\ Idle

\* self.token = self.load_token()
LoadToken ==
  /\ pc = "load_token"
  /\ ret' = load_token(arg.project_id, arg.platform, secrets)
  /\ pc' = "returned"
  /\ UNCHANGED <<cur, issues, new_issues, idx, processed_issues, store, task_file,
                 ev, queued, saves, visited, failed, old, hist,
                 config, secrets, project_watchers, arg>>

NextToken == LoadToken

SpecToken == InitToken /\ [][NextToken]_vars

(* ------------------------- one call of queue_task ---------------------- *)
\* a queue directory is "writable" (there or makeable, files can be written),
\* "unwritable" (there, but this user cannot write into it), "nocreate" (not
\* there, mkdir gets PermissionError) or "oserror" (not there, mkdir fails
\* otherwise: read-only file system, a file in the way)
DirStates == {"writable", "unwritable", "nocreate", "oserror"}

\* queue_dir.mkdir(parents=True, exist_ok=True)
mkdir(dir) ==
  CASE dir = "nocreate" -> "PermissionError"
    [] dir = "oserror" -> "OSError"
    [] OTHER -> "none"

\* a task file name that puts no separator between project id and issue id
task_name_unseparated(pid, issue_id) ==
  <<"task-">> \o pid \o Str(issue_id) \o <<".json">>

\* f"task-{parsed_issue['project_id']}-{parsed_issue['issue_id']}.json", the
\* project id a sequence of characters, the issue id an integer
task_name(pid, issue_id) ==
  <<"task-">> \o pid \o <<"-">> \o Str(issue_id) \o <<".json">>

\* queue_task for task p, i: the mkdir with its PermissionError fallback, then
\* the write of the task file; what it raised, the file it wrote and the
\* value it returned
queue_task(primary, fallback, p, i) ==
  LET name == task_name(project_id(p), i)
      first == mkdir(primary)
      second == IF first = "PermissionError" THEN mkdir(fallback) ELSE "none"
      queue_dir == IF first = "PermissionError" THEN "fallback" ELSE "primary"
      state == IF queue_dir = "fallback" THEN fallback ELSE primary
  IN IF first = "OSError" THEN [raised |-> first, file |-> <<>>, returned |-> <<"None">>]
     ELSE IF second # "none" THEN [raised |-> second, file |-> <<>>, returned |-> <<"None">>]
     ELSE IF state # "writable"
       THEN [raised |-> "PermissionError", file |-> <<>>, returned |-> <<"None">>]
     ELSE [raised |-> "none", file |-> <<queue_dir>> \o name, returned |-> <<"None">>]

\* any issue is queued with the two queue directories in any state
InitQueue ==
  /\ pc = "queue_task"
  /\ arg \in [primary : DirStates, fallback : DirStates,
               project : Projects, issue : IssueIds]
  /\ ret = <<>>
  /\ config = RunConfig
  /\ secrets = RunSecrets
  /\ store = [status |-> "missing", keys |-> {}]
  /\ project_watchers = <<>>
  /\ Idle

\* self.queue_task(parsed, project_watcher)
QueueTask ==
  /\ pc = "queue_task"
  /\ ret' = queue_task(arg.primary, arg.fallback, arg.project, arg.issue)
  /\ pc' = "returned"
  /\ UNCHANGED <<cur, issues, new_issues, idx, processed_issues, store, task_file,
                 ev, queued, saves, visited, failed, old, hist,
                 config, secrets, project_watchers, arg>>

NextQueue == QueueTask

SpecQueue == InitQueue /\ [][NextQueue]_vars

(* ------------------------- names of task files ------------------------- *)
\* longest project id
MaxIdLen == 3
\* largest issue number
MaxIssueNumber == 12
\* most tasks written into one queue directory
MaxTasks == 2

\* project ids: a letter, a digit, the dash and the underscore
IdChars == {"a", "1", "-", "_"}
ProjectIds == UNION {[1..n -> IdChars] : n \in 1..MaxIdLen}
IssueNumbers == 1..MaxIssueNumber

\* an empty queue directory, no task queued yet
InitName ==
  /\ pc = "queue_task"
  /\ arg = {}
  /\ ret = {}
  /\ config = RunConfig
  /\ secrets = RunSecrets
  /\ store = [status |-> "missing", keys |-> {}]
  /\ project_watchers = <<>>
  /\ Idle

\* task_file.write_text(...) of the task of any project and issue: arg the
\* (project id, issue id) pairs queued so far, ret the files of the directory
WriteTaskFile ==
  /\ pc = "queue_task"
  /\ Cardinality(arg) < MaxTasks
  /\ \E pid \in ProjectIds, n \in IssueNumbers :
       /\ arg' = arg \cup {<<pid, n>>}
       /\ ret' = ret \cup {task_name(pid, n)}
  /\ UNCHANGED <<pc, cur, issues, new_issues, idx, processed_issues, store,
                 task_file, ev, queued, saves, visited, failed, old, hist,
                 config, secrets, project_watchers>>

NextName == WriteTaskFile

SpecName == InitName /\ [][NextName]_vars

(* ------------------------ the label transition ------------------------- *)
\* most labels of an issue
MaxLabels == 3

\* the labels of a fetched issue: it carries `ready`
IssueLabels ==
  {l \in UNION {[1..n -> {"ready", "bug", "processing"}] : n \in 1..MaxLabels} :
     "ready" \in Range(l)}

\* how a `gh issue edit` call ends: exit status 0, another exit status, no
\* answer within the timeout, or gh cannot be started
GhOutcomes == {"0", "1", "TimeoutExpired", "OSError"}

\* how requests.put ends: a status code or an exception
PutOutcomes == {"200", "404", "RequestException"}

\* update_github_labels: the calls made, the exception that left the function
\* and the log lines written
update_github_labels(remove, add) ==
  LET removed == <<[call |-> "remove-label", labels |-> <<"ready">>]>>
      warned == IF remove = "1" THEN <<"warning">> ELSE <<>>
  IN IF remove \in {"TimeoutExpired", "OSError"}
       THEN [calls |-> removed, raised |-> "none", log |-> <<"error">>]
     ELSE [calls |-> removed \o <<[call |-> "add-label", labels |-> <<"in-queue">>]>>,
           raised |-> "none",
           log |-> warned \o <<CASE add = "0" -> "info"
                                 [] add = "1" -> "warning"
                                 [] OTHER -> "error">>]

\* update_gitlab_labels for a watcher whose configuration has a project_id
\* (configured) or has none
update_gitlab_labels(configured, labels, put) ==
  LET current_labels == SelectSeq(labels, LAMBDA l : l # "ready") \o <<"processing">>
  IN IF ~configured
       THEN [calls |-> <<>>, raised |-> "none", log |-> <<"warning">>]
     ELSE [calls |-> <<[call |-> "put", labels |-> current_labels]>>,
           raised |-> IF put = "RequestException" THEN put ELSE "none",
           log |-> IF put = "404" THEN <<"warning">> ELSE <<>>]

\* update_issue_labels: the platform's transition, any exception caught
update_issue_labels(a) ==
  LET r == IF a.platform = github
             THEN update_github_labels(a.remove, a.add)
           ELSE update_gitlab_labels(a.configured, a.labels, a.put)
  IN IF r.raised = "none" THEN r
     ELSE [r EXCEPT !.raised = "none", !.log = Append(r.log, "error")]

\* a fetched issue of a GitHub or GitLab project whose fetch worked, the
\* GitLab project id from the configuration or from the lookup by path
InitLabels ==
  /\ pc = "label"
  /\ arg \in [platform : {github, gitlab}, configured : BOOLEAN,
               labels : IssueLabels, remove : GhOutcomes, add : GhOutcomes,
               put : PutOutcomes]
  /\ ret = <<>>
  /\ config = RunConfig
  /\ secrets = RunSecrets
  /\ store = [status |-> "missing", keys |-> {}]
  /\ project_watchers = <<>>
  /\ Idle

\* project_watcher.update_issue_labels(issue)
UpdateLabels ==
  /\ pc = "label"
  /\ ret' = update_issue_labels(arg)
  /\ pc' = "add"
  /\ UNCHANGED <<cur, issues, new_issues, idx, processed_issues, store, task_file,
                 ev, queued, saves, visited, failed, old, hist,
                 config, secrets, project_watchers, arg>>

NextLabels == UpdateLabels

SpecLabels == InitLabels /\ [][NextLabels]_vars

(* --------------------------- the task parser --------------------------- *)
\* most lines of an issue body
MaxLines == 4

\* a line is a sequence of pieces: single characters where the parser looks
\* at them ("#", " ", digits, ".", "-", "*", "[", "x", "]") and words
DetailedSteps == <<"Detailed Steps">>
AcceptanceCriteria == <<"Acceptance Criteria">>

BodyLines ==
  { <<"#", "#", " ">> \o DetailedSteps,
    <<" ", "#", "#">> \o AcceptanceCriteria \o <<" ">>,
    <<"#", "#", "#", " ", "Notes">>,
    <<"#", "#">>,
    <<"#", " ", "Title">>,
    <<"1", ".", " ", "a">>,
    <<" ", "-", " ", "b", " ">>,
    <<"[", "x", "]", " ", "c">>,
    <<"[", " ", "]", " ", "d">>,
    <<"*", "e">>,
    <<"1", "0", ".", " ", "f">>,
    <<"prose">>,
    <<" ">> }

\* body.split('\n') of the bodies looked at
Bodies == UNION {[1..n -> BodyLines] : n \in 0..MaxLines}

\* the label lists looked at
LabelLists ==
  UNION {[1..n -> {"ready", "bug", "simple", "medium", "complex"}] : n \in 0..MaxLabels}

\* str.lstrip(), str.rstrip() and str.strip() for the blank
RECURSIVE lstrip(_)
lstrip(s) == IF s # <<>> /\ Head(s) = " " THEN lstrip(Tail(s)) ELSE s

RECURSIVE rstrip(_)
rstrip(s) ==
  IF s # <<>> /\ s[Len(s)] = " " THEN rstrip(SubSeq(s, 1, Len(s) - 1)) ELSE s

strip(s) == rstrip(lstrip(s))

\* str.lstrip('#')
RECURSIVE lstrip_markers(_)
lstrip_markers(s) == IF s # <<>> /\ Head(s) = "#" THEN lstrip_markers(Tail(s)) ELSE s

\* str.startswith(prefix)
startswith(s, prefix) ==
  Len(prefix) <= Len(s) /\ SubSeq(s, 1, Len(prefix)) = prefix

\* the tuple of prefixes that make a line a list item
ItemPrefixes ==
  {<<d, ".">> : d \in {"1", "2", "3", "4", "5", "6", "7", "8", "9"}}
    \cup {<<"-">>, <<"*">>, <<"[", " ", "]">>, <<"[", "x", "]">>}

\* a complexity scan in which a later label replaces an earlier one
RECURSIVE complexity_last(_)
complexity_last(labels) ==
  IF labels = <<>> THEN "medium"
  ELSE IF labels[Len(labels)] \in {"simple", "medium", "complex"}
    THEN labels[Len(labels)]
  ELSE complexity_last(SubSeq(labels, 1, Len(labels) - 1))

\* the loop of parse_issue over issue['labels']: the first label that is a
\* complexity ends it, 'medium' when there is none
RECURSIVE complexity(_)
complexity(labels) ==
  IF labels = <<>> THEN "medium"
  ELSE IF Head(labels) \in {"simple", "medium", "complex"} THEN Head(labels)
  ELSE complexity(Tail(labels))

\* sections[current_section] = current_content, when current_section is
\* neither None nor empty
SaveSection(st) ==
  IF st.has /\ st.current_section # <<>>
    THEN [n \in DOMAIN st.sections \cup {st.current_section} |->
            IF n = st.current_section THEN st.current_content ELSE st.sections[n]]
  ELSE st.sections

\* one turn of the loop of parse_markdown_sections
ParseLine(st, line) ==
  LET stripped == strip(line)
  IN IF startswith(stripped, <<"#", "#">>)
       THEN [sections |-> SaveSection(st), has |-> TRUE,
             current_section |-> strip(lstrip_markers(stripped)),
             current_content |-> <<>>]
     ELSE IF st.has /\ st.current_section # <<>>
       THEN IF stripped # <<>> /\ \E prefix \in ItemPrefixes : startswith(stripped, prefix)
              THEN [st EXCEPT !.current_content = Append(@, stripped)]
            ELSE st
     ELSE st

RECURSIVE ParseLines(_, _)
ParseLines(st, lines) ==
  IF lines = <<>> THEN st ELSE ParseLines(ParseLine(st, Head(lines)), Tail(lines))

\* parse_markdown_sections: the dict of section name to list items
parse_markdown_sections(body) ==
  SaveSection(ParseLines([sections |-> [n \in {} |-> <<>>], has |-> FALSE,
                          current_section |-> <<>>, current_content |-> <<>>],
                         body))

\* dict.get(key, [])
get(sections, key) == IF key \in DOMAIN sections THEN sections[key] ELSE <<>>

\* parse_issue: the fields it computes from the labels and the body (the
\* other fields are copies of the issue and of the project configuration)
parse_issue(issue) ==
  LET sections == parse_markdown_sections(issue.body)
  IN [complexity |-> complexity(issue.labels),
      steps |-> get(sections, DetailedSteps),
      acceptance_criteria |-> get(sections, AcceptanceCriteria),
      raised |-> "none"]

\* an issue with any label list, or with any body
InitParse ==
  /\ pc = "parse"
  /\ arg \in {[labels |-> l, body |-> <<>>] : l \in LabelLists}
              \cup {[labels |-> <<"ready">>, body |-> b] : b \in Bodies}
  /\ ret = <<>>
  /\ config = RunConfig
  /\ secrets = RunSecrets
  /\ store = [status |-> "missing", keys |-> {}]
  /\ project_watchers = <<>>
  /\ Idle

\* parsed = project_watcher.parse_issue(issue); ret keeps the sections too
ParseTask ==
  /\ pc = "parse"
  /\ ret' = [task |-> parse_issue(arg), sections |-> parse_markdown_sections(arg.body)]
  /\ pc' = "queue"
  /\ UNCHANGED <<cur, issues, new_issues, idx, processed_issues, store, task_file,
                 ev, queued, saves, visited, failed, old, hist,
                 config, secrets, project_watchers, arg>>

NextParse == ParseTask

SpecParse == InitParse /\ [][NextParse]_vars

(* ============================== claims ================================ *)
\* an issue is being worked on: CurIssue is defined and is the one acted upon
Processing ==
  pc \in {"parse", "queue", "write", "label", "add", "save", "savew",
          "next_issue", "except"}

Norm(e) == IF e \in {"label_ok", "label_failed"} THEN "label" ELSE e
Canon == <<"parse", "publish", "label", "add", "persist">>

IsPrefix(a, b) == Len(a) <= Len(b) /\ \A n \in 1..Len(a) : a[n] = b[n]

\* a is b with some elements left out, order kept
RECURSIVE IsSubSeq(_, _)
IsSubSeq(a, b) ==
  IF a = <<>> THEN TRUE
  ELSE IF b = <<>> THEN FALSE
  ELSE IF Head(a) = Head(b) THEN IsSubSeq(Tail(a), Tail(b))
  ELSE IsSubSeq(a, Tail(b))

\* queue_task raised for the current issue
PublishFailed == pc = "except" /\ ev = <<"parse">>

(* C1: an issue whose key was in processed_issues when a round began is not
   worked on in that round: it is not among new_issues of its project, and
   no parse, task-file write, label call, add or save acts on it. *)
C1_ProcessedIsSkipped ==
  old =>
    /\ ~(Processing /\ CurKey = ObsKey)
    /\ (cur = obs[1] /\ pc \notin {"fetch", "dead"}) => obs[2] \notin Range(new_issues)

\* the observed issue was queued and recorded in this run, a later round
\* fetched it again and found nothing new
C1_Witness ==
  /\ old /\ crashes = 0 /\ task_file = "ok"
  /\ cur = obs[1] /\ pc = "next_project"
  /\ obs[2] \in Range(issues) /\ new_issues = <<>>

(* C2 (the claim as stated): an issue whose task file was completely written
   before a kill is not published again after the restart. *)
C2_NoRequeueAcrossCrash ==
  ~(prevQueue /\ pc = "label" /\ CurKey = ObsKey)

(* C3 (the claim as stated): a key that was completely persisted to the store
   before a kill is loaded by the restarted process, which never works on the
   issue again. *)
C3_PersistedKeySurvives ==
  durable =>
    /\ pc # "dead" => ObsKey \in processed_issues
    /\ ~(Processing /\ CurKey = ObsKey)

(* C4: label call, add and save happen only after the task file of the
   current issue was written; when queue_task raised, the key of the issue is
   in processed_issues or in the store only if an earlier entry of the same
   batch published that issue; every key that enters processed_issues in a
   run is that of the current issue, whose task file is complete; the store
   is only ever written from processed_issues. *)
C4_State ==
  /\ pc \in {"label", "add", "save", "savew", "next_issue"} =>
       Len(ev) >= 2 /\ ev[2] = "publish"
  /\ PublishFailed =>
       /\ CurKey \in processed_issues => CurIssue \in Range(queued)
       /\ (store.status = "ok" /\ CurKey \in store.keys) =>
            CurIssue \in Range(queued)

C4_Step ==
  /\ (pc # "dead" /\ processed_issues' # processed_issues /\ pc' # "dead") =>
       /\ pc = "add"
       /\ processed_issues' = processed_issues \cup {CurKey}
       /\ ev[2] = "publish"
       /\ CurTask = ObsTask => task_file = "ok"
  /\ PublishFailed' => UNCHANGED <<processed_issues, store>>
  /\ (store' # store /\ store'.status = "ok") => store'.keys = processed_issues

C4_FailedPublishNotRecorded == []C4_State /\ [][C4_Step]_vars

\* queue_task raised for the observed issue, which stays unrecorded
C4_Witness ==
  PublishFailed /\ CurKey = ObsKey /\ ObsKey \notin processed_issues

(* C6: in every round the watchers are fetched once each in configured order,
   whatever failed before: at project cur exactly 1..cur have been fetched,
   the round ends only after all were, and only a kill ends the process. *)
C6_Isolation ==
  /\ visited = [n \in 1..Len(visited) |-> n]
  /\ pc # "dead" => Len(visited) = (IF pc = "fetch" THEN cur - 1 ELSE cur)
  /\ pc = "sleep" => Len(visited) = NumProjects
  /\ pc = "dead" => crashes > 0

\* project 1 failed in this round and project 2 has published an issue
C6_Witness == 1 \in failed /\ cur = 2 /\ Len(queued) >= 1

C8_LabelFailureNonBlocking ==
  (pc \in {"next_issue", "except"} /\ Len(ev) >= 3 /\ ev[3] = "label_failed") =>
    /\ pc = "next_issue"
    /\ CurTask = ObsTask => task_file = "ok"
    /\ CurKey \in processed_issues
    /\ store.status = "ok" /\ CurKey \in store.keys

C10_StepOrder ==
  /\ Len(ev) <= Len(Canon)
  /\ \A n \in 1..Len(ev) : Norm(ev[n]) = Canon[n]
  /\ pc = "next_issue" => (Len(ev) = Len(Canon) /\ saves = idx)
  /\ pc \in {"parse", "queue", "write", "label", "add", "save", "savew"} =>
       saves = idx - 1

\* the publish of the second issue of a batch begins after the first save
C10_Witness == pc = "queue" /\ idx = 2 /\ saves = 1 /\ Len(queued) = 1

(* C5: in a run without kills, if every fetch of its project returns the
   observed issue and from some time on no queue_task raises, then whenever
   the publish of the observed issue failed, leaving it unrecorded, it is
   later tried again, and in the end its task file is complete and its key
   is in processed_issues. *)
FetchKeepsReturning ==
  [](cur = obs[1] /\ pc # "fetch" => obs[2] \in Range(issues))

PublishEventuallySucceeds == <>[](~PublishFailed)

ObsPublishFailed ==
  PublishFailed /\ CurKey = ObsKey /\ ObsKey \notin processed_issues
ObsTriedAgain == pc = "queue" /\ CurKey = ObsKey
ObsQueuedAndRecorded == task_file = "ok" /\ ObsKey \in processed_issues

C11_AtomicPersistence ==
  pc = "dead" => (store.status # "partial" /\ task_file # "partial")

(* C12 (the claim as stated): when the loop has stopped on an interrupt, no
   store or task file is half-written, and an issue that was published has
   also been recorded and persisted. *)
C12_CleanShutdown ==
  pc = "stopped" =>
    /\ store.status # "partial"
    /\ task_file # "partial"
    /\ "publish" \in Range(ev) => "persist" \in Range(ev)

(* C13 (the claim as stated): keys are never removed: within a process
   processed_issues only grows, a completely written store only grows, and a
   key that was once in a completely written store is in every later one,
   restarts included. *)
C13_Step ==
  /\ (pc # "dead" /\ pc' # "dead") => processed_issues \subseteq processed_issues'
  /\ (store.status = "ok" /\ store'.status = "ok") => store.keys \subseteq store'.keys

C13_KeysNeverRemoved ==
  /\ [](everStored /\ store.status = "ok" => ObsKey \in store.keys)
  /\ [][C13_Step]_vars

(* C14 (the claim as stated): loading the store never ends the process, and
   whenever the store file is not a valid serialized key list (missing,
   unreadable, cut off, or JSON of another kind) the loaded set is empty. *)
C14_LoadIsTotal ==
  /\ pc # "OSError"
  /\ (pc \in {"poll", "polled"} /\ store.status # "ok") => processed_issues = {}

\* the entries of the `projects` list that can be watched: enabled, with
\* every required key, and with a token
Loadable ==
  IF "projects" \notin DOMAIN config.data THEN {}
  ELSE {n \in 1..Len(config.data["projects"]) :
          LET project == config.data["projects"][n]
          IN /\ get_enabled(project)
             /\ Range(required) \subseteq DOMAIN project
             /\ load_token(project["id"], project["git_platform"], secrets).raised
                  = "none"}

\* the configuration parsed and has the `projects` list shape
ListShape ==
  /\ config.status = "ok"
  /\ "projects" \in DOMAIN config.data
  /\ config.data["projects"] # <<>>

\* load_projects has returned or ended the process
Loaded == pc \notin {"load_config", "load_projects"}

Watched == {project_watchers[n].entry : n \in 1..Len(project_watchers)}

(* C16 (the claim as stated): an entry of the `projects` list that lacks a
   required key, be it disabled or without id, never ends the process:
   loading goes on, and the entries that can be watched are watched. *)
C16_InvalidEntriesNotFatal ==
  (ListShape /\ Loaded) =>
    /\ pc # "KeyError"
    /\ Loadable # {} => (pc # "exit1" /\ Watched = Loadable)

\* entry n of the `projects` list
EntryOf(n) == config.data["projects"][n]

(* C17: a project with enabled: false is never watched and never fetched,
   in no round; an entry without the `enabled` key counts as enabled: when it
   has every required key and a token it is watched, and fetched in the
   round. *)
C17_DisabledNeverPolled ==
  ListShape =>
    /\ \A n \in Watched : get_enabled(EntryOf(n))
    /\ \A m \in 1..Len(visited) :
         get_enabled(EntryOf(project_watchers[visited[m]].entry))
    /\ \A n \in Loadable :
         "enabled" \notin DOMAIN EntryOf(n) =>
           /\ pc \in {"load_processed", "poll", "polled"} => n \in Watched
           /\ pc = "polled" =>
                \E m \in 1..Len(visited) : project_watchers[visited[m]].entry = n

\* a round is over: the disabled first project was not fetched, the second,
\* which has no `enabled` key, was
C17_Witness ==
  /\ pc = "polled" /\ ListShape /\ Len(config.data["projects"]) = 2
  /\ "enabled" \in DOMAIN EntryOf(1) /\ ~EntryOf(1)["enabled"]
  /\ Range(required) \subseteq DOMAIN EntryOf(1)
  /\ load_token(EntryOf(1)["id"], github, secrets).raised = "none"
  /\ "enabled" \notin DOMAIN EntryOf(2)
  /\ Len(visited) = 1 /\ project_watchers[visited[1]].entry = 2

\* the token files of the watcher in arg, in the order of precedence
TokenOrder ==
  <<arg.project_id \o token_suffix, arg.platform \o token_suffix, api_token>>

\* the positions of TokenOrder whose file provides a token
Usable == {n \in 1..3 : secrets[TokenOrder[n]] = "ok"}

(* C18 (the claim as stated): for every combination of absent, empty and
   present project, platform and global token files, load_token returns the
   token of the first file in this order that provides one, and raises only
   when none of the three does. *)
C18_TokenPrecedence ==
  pc = "returned" =>
    IF Usable = {} THEN ret.raised # "none"
    ELSE /\ ret.raised = "none"
         /\ \E n \in Usable :
              /\ ret.token = TokenOrder[n]
              /\ \A m \in Usable : n <= m

(* C15 (the claim as stated): whenever the primary queue directory is not
   writable, be it that it cannot be made or that it is there and no file can
   be written into it, queue_task raises nothing, writes the task file into
   the fallback directory and returns the location of that file. *)
C15_QueueDirFallback ==
  (pc = "returned" /\ arg.primary # "writable" /\ arg.fallback = "writable") =>
    /\ ret.raised = "none"
    /\ ret.file = <<"fallback", "task-">> \o task_id(arg.project, arg.issue)
                    \o <<".json">>
    /\ ret.returned = ret.file

\* the configuration parsed and has the legacy single-project shape
LegacyShape ==
  /\ config.status = "ok"
  /\ ~ListShape
  /\ "repository" \in DOMAIN config.data \/ "project" \in DOMAIN config.data

\* the token of the legacy project can be resolved
LegacyToken == load_token(default, github, secrets).raised = "none"

\* an entry whose handling raises KeyError: disabled and without id
NoIdEntry ==
  \E n \in 1..Len(config.data["projects"]) :
    ~get_enabled(EntryOf(n)) /\ "id" \notin DOMAIN EntryOf(n)

(* C19: a project whose token cannot be resolved is left out of the watch set
   and never ends the process by itself. With a `projects` list, loading ends
   with exactly the watchable entries watched, each holding a token, unless an
   entry without id raised; sys.exit(1) happens only without a configuration
   that parses, without any project configured, or with no watchable project
   left, which in the legacy shape is the single project without a token. *)
C19_AuthErrorScoped ==
  Loaded =>
    /\ \A n \in 1..Len(project_watchers) : project_watchers[n].token # <<>>
    /\ ListShape =>
         /\ pc = "KeyError" => NoIdEntry
         /\ pc = "exit1" => Loadable = {}
         /\ pc \notin {"KeyError", "exit1"} => (Watched = Loadable /\ Loadable # {})
    /\ LegacyShape =>
         /\ pc # "KeyError"
         /\ pc = "exit1" <=> ~LegacyToken
         /\ pc # "exit1" => Watched = {0}
    /\ (pc = "exit1" /\ config.status = "ok" /\ ~ListShape /\ ~LegacyShape) =>
         /\ "repository" \notin DOMAIN config.data
         /\ "projects" \in DOMAIN config.data => config.data["projects"] = <<>>

\* two complete, enabled projects: the first has no token and is left out,
\* the second is watched and fetched
C19_Witness ==
  /\ pc = "polled" /\ ListShape /\ Len(config.data["projects"]) = 2
  /\ \A n \in 1..2 : get_enabled(EntryOf(n)) /\ missing(EntryOf(n)) = <<>>
  /\ load_token(EntryOf(1)["id"], github, secrets).raised # "none"
  /\ Watched = {2} /\ Len(visited) = 1

(* C20 (the claim as stated): no two watchers of the watch set have the same
   project_id, for the configuration left by any sequence of project-manager
   commands, so equal issue numbers of two watched projects never give the
   same dedup key or task file name. *)
C20_UniqueProjectIds ==
  \A m, n \in 1..Len(project_watchers) :
    m # n =>
      /\ project_watchers[m].project_id # project_watchers[n].project_id
      /\ \A i \in IssueIds :
           /\ project_watchers[m].project_id \o <<":">> \o Str(i)
                # project_watchers[n].project_id \o <<":">> \o Str(i)
           /\ project_watchers[m].project_id \o <<"-">> \o Str(i)
                # project_watchers[n].project_id \o <<"-">> \o Str(i)

(* C28 (the claim as stated): when the publish of an issue failed, the issues
   that follow it in the batch are still worked on in the round: the project
   is left only when the failed issue was the last of its batch. *)
C28_ContainedAtIssue ==
  (pc = "next_project" /\ ev = <<"parse">>) => idx = Len(new_issues)

(* C28 (amended): a failed publish ends the batch of its project for the
   round: exactly the issues before the failed one were published, and the
   failed issue and those after it stay unrecorded, unless an earlier entry
   of the batch published the same issue. *)
C28_ContainedAtProject ==
  (pc \in {"except", "next_project"} /\ ev = <<"parse">>) =>
    /\ queued = SubSeq(new_issues, 1, idx - 1)
    /\ \A n \in idx..Len(new_issues) :
         issue_key(cur, new_issues[n]) \in processed_issues =>
           new_issues[n] \in Range(queued)

\* the publish of the first of two new issues failed and the project is
\* left with the second one untouched
C28_Witness ==
  /\ pc = "next_project" /\ ev = <<"parse">>
  /\ idx = 1 /\ Len(new_issues) = 2 /\ new_issues[1] # new_issues[2]
  /\ issue_key(cur, new_issues[2]) \notin processed_issues

(* C29 (the claim as stated): after the recording step of an issue the store
   file holds a complete key list equal to processed_issues. *)
C29_StoreInStep ==
  pc = "next_issue" => (store.status = "ok" /\ store.keys = processed_issues)

(* C30 (the claim as stated): no issue is published twice for a project in
   one round, whatever list the fetch returned, repetitions included. *)
C30_OnePublishPerRound ==
  \A m, n \in 1..Len(queued) : m # n => queued[m] # queued[n]

\* the fetch of the current project failed in this round
FetchFailed == pc = "next_project" /\ cur \in failed /\ ev = <<>>

(* C21: a fetch that fails (request exception, non-2xx answer, timeout,
   failed GitLab project lookup, unsupported platform) hands run() the empty
   list and raises nothing: the step goes straight to the next project,
   nothing of that project is parsed, published or saved in the round, and
   the step leaves processed_issues, the store file and the task file as
   they were. *)
C21_FetchFailureIsEmpty ==
  /\ [](FetchFailed =>
          /\ issues = <<>> /\ new_issues = <<>>
          /\ queued = <<>> /\ saves = 0)
  /\ [][(pc = "fetch" /\ cur \in failed') =>
          /\ pc' = "next_project"
          /\ issues' = <<>>
          /\ processed_issues' = processed_issues
          /\ store' = store
          /\ task_file' = task_file]_vars

\* the fetch of project 2 failed in a round in which project 1 had recorded
\* an issue
C21_Witness == FetchFailed /\ cur = 2 /\ store.keys # {} /\ 1 \notin failed

(* C22: the task file name is a function of the (project id, issue id) pair
   alone and distinct pairs get distinct names: a queue directory holds
   exactly one file per pair that was queued, a pair queued again taking the
   place of its own file. *)
C22_NameIsInjective ==
  /\ Cardinality(ret) = Cardinality(arg)
  /\ \A t \in arg : task_name(t[1], t[2]) \in ret

\* two tasks whose ids differ only in where the dash stands: project "a-1"
\* with issue 1 and project "a" with issue 11
C22_Witness ==
  /\ <<<<"a", "-", "1">>, 1>> \in arg
  /\ <<<<"a">>, 11>> \in arg
  /\ Cardinality(ret) = 2

(* C23 (the claim as stated): the label transition of an issue of a GitLab
   project whose issues were fetched, its project id taken from the
   configuration or looked up by path, is one update call carrying the
   issue's labels without `ready` and with `processing`. *)
C23_GitlabSingleUpdate ==
  (pc = "add" /\ arg.platform = gitlab) =>
    /\ Len(ret.calls) = 1
    /\ ret.calls[1].call = "put"
    /\ Range(ret.calls[1].labels) = (Range(arg.labels) \ {"ready"}) \cup {"processing"}

(* C24 (the claim as stated): the label transition of a GitHub issue is the
   remove of `ready` followed by the add of `in-queue`, the add attempted
   however the remove ended, and no failure of either leaves the function
   other than as a log line. *)
C24_GithubRemoveThenAdd ==
  (pc = "add" /\ arg.platform = github) =>
    /\ Len(ret.calls) = 2
    /\ ret.calls[1].call = "remove-label"
    /\ ret.calls[2].call = "add-label"
    /\ ret.raised = "none"

\* the positions of the complexity labels of a label list
ComplexityAt(labels) ==
  {n \in 1..Len(labels) : labels[n] \in {"simple", "medium", "complex"}}

(* C25: the complexity of the parsed task is the first label, in the order of
   the label list, that is one of simple, medium, complex, and medium when
   the list has none of them. *)
C25_FirstComplexityWins ==
  pc = "queue" =>
    LET at == ComplexityAt(arg.labels)
    IN IF at = {} THEN ret.task.complexity = "medium"
       ELSE \E n \in at : /\ \A m \in at : n <= m
                          /\ ret.task.complexity = arg.labels[n]

\* a list with two different complexity labels, the first of them not the
\* default, parsed
C25_Witness ==
  /\ pc = "queue"
  /\ arg.labels = <<"ready", "complex", "simple">>
  /\ ret.task.complexity = "complex"

\* a line whose trimmed form starts with exactly two header markers
Level2(line) ==
  /\ startswith(strip(line), <<"#", "#">>)
  /\ ~startswith(strip(line), <<"#", "#", "#">>)

\* the trimmed, marker-stripped text of a header line
HeaderName(line) == strip(lstrip_markers(strip(line)))

\* the level-2 header lines of a body, and those with a given name
Headers(body) == {n \in 1..Len(body) : Level2(body[n])}
Named(body, name) == {n \in Headers(body) : HeaderName(body[n]) = name}

\* the last line of the section that the header at line n starts
SectionEnd(body, n) ==
  IF \E m \in Headers(body) : m > n
    THEN (CHOOSE m \in Headers(body) : m > n /\ \A k \in Headers(body) : k > n => m <= k) - 1
  ELSE Len(body)

\* the trimmed list-item lines of a sequence of lines, in order
RECURSIVE ItemsOf(_)
ItemsOf(lines) ==
  IF lines = <<>> THEN <<>>
  ELSE LET s == strip(Head(lines))
       IN IF s # <<>> /\ \E prefix \in ItemPrefixes : startswith(s, prefix)
            THEN <<s>> \o ItemsOf(Tail(lines))
          ELSE ItemsOf(Tail(lines))

\* the list items of the section that the header at line n starts
SectionItems(body, n) == ItemsOf(SubSeq(body, n + 1, SectionEnd(body, n)))

(* C26 (the claim as stated): the sections of a body are those started by
   its level-2 header lines, the lines with exactly two markers: the section
   names are the trimmed, marker-stripped texts of these lines, and what a
   section holds comes from the lines between its header and the next
   level-2 header (a header without a name left aside). *)
C26_Level2Segmentation ==
  pc = "queue" =>
    /\ DOMAIN ret.sections \ {<<>>} =
         {HeaderName(arg.body[n]) : n \in Headers(arg.body)} \ {<<>>}
    /\ \A name \in DOMAIN ret.sections :
         \E n \in Named(arg.body, name) :
           ret.sections[name] = SectionItems(arg.body, n)

\* the list extraction of the claim for the section called name
Extracted(body, name, items) ==
  IF Named(body, name) = {} THEN items = <<>>
  ELSE \E n \in Named(body, name) : items = SectionItems(body, n)

(* C27 (the claim as stated): steps are the trimmed list-item lines of the
   level-2 section "Detailed Steps" in body order, acceptance_criteria those
   of "Acceptance Criteria"; both are empty when the section is missing, and
   the parser raises nothing. *)
C27_ListExtractionTotal ==
  pc = "queue" =>
    /\ ret.task.raised = "none"
    /\ Extracted(arg.body, DetailedSteps, ret.task.steps)
    /\ Extracted(arg.body, AcceptanceCriteria, ret.task.acceptance_criteria)

====
